---- MODULE Spec2Model ----
(***************************************************************************)
(* Packet-by-packet GPS scheduler of the beats jukebox (src/scheduler.py). *)
(*                                                                         *)
(* Times (virtual_time, arrival_time, finish_time, lengths) are exact      *)
(* rationals of the program, written here as integers in units of 1/48 s,  *)
(* so that SCHEDULER_INTERVAL_SEC = 0.25 s is 12 units and every quotient  *)
(* length / weight and interval / active_sessions of the model is exact.   *)
(* The packet table is a sequence in insertion order: the position of a    *)
(* packet is the order of its autoincrement id.                            *)
(* SQL ORDER BY leaves the order of rows with equal keys to the database:  *)
(* every such tie is a nondeterministic choice.                            *)
(***************************************************************************)
EXTENDS Integers, Sequences, FiniteSets, TLC

\* ---------------------------------------------------------------- bounds
NumSongs == 3
MaxPackets == 2
MaxV == 12

\* ------------------------------------------------------------- constants
SCHEDULER_INTERVAL_SEC == 12

Songs == 1..NumSongs
Users == {"u1", "u2"}
RANDOM == "RANDOM"
YouTubeUrl == "www.youtube.com/watch?v=a"
OtherUrl == "example.com/x"
Urls == {YouTubeUrl, OtherUrl}
NoSong == 0        \* song_id=None
NoUrl == ""        \* video_url=None
NoCap == -1        \* MAX_DONT_REPEAT_FOR = None
DrfDen == 2        \* DONT_REPEAT_FOR is DrfNum / DrfDen

\* Song.length and Song.path of the library rows; length of the fetched video.
SongLength(id) == 12 * (1 + (id % 2))
SongPath(id) == "/music/" \o ToString(id)
FetchedVideoLength == 12

\* The configurations of [Player] dont_repeat_for / max_dont_repeat_for.
Configs ==
    { [drf |-> 1, max |-> NoCap],
      [drf |-> 2, max |-> 2] }

VARIABLES
    packets,          \* Packet rows of this player, in id order
    virtual_time,     \* Scheduler.virtual_time
    active_sessions,  \* Scheduler.active_sessions
    discard_pile,     \* Scheduler.discard_pile (deque of paths)
    discard_set,      \* Scheduler.discard_set
    now_playing,      \* player.now_playing
    has_ended,        \* player.has_ended()
    library,          \* ids of the Song rows
    config,           \* DONT_REPEAT_FOR, MAX_DONT_REPEAT_FOR
    result,           \* the last operation and how it returned
    since_play,       \* per song: Local plays of other songs since its last play
    ticker,           \* the thread of _scheduler_thread: where it is, what it holds
    callers           \* whether callers still make calls

vars == <<packets, virtual_time, active_sessions, discard_pile, discard_set,
          now_playing, has_ended, library, config, result, since_play,
          ticker, callers>>

\* ------------------------------------------------------------- helpers
Range(f) == {f[i] : i \in DOMAIN f}
Max(a, b) == IF a >= b THEN a ELSE b
Min(a, b) == IF a <= b THEN a ELSE b
RemoveAt(seq, i) == [k \in 1..(Len(seq) - 1) |-> IF k < i THEN seq[k] ELSE seq[k + 1]]

NoMedia == [kind |-> "none", id |-> NoSong, url |-> NoUrl]
SongMedia(id) == [kind |-> "song", id |-> id, url |-> NoUrl]
VideoMedia(url) == [kind |-> "video", id |-> NoSong, url |-> url]

\* The whole state as one record, so that operations compose as the code's
\* calls do.
State ==
    [packets |-> packets, vt |-> virtual_time, as |-> active_sessions,
     pile |-> discard_pile, dset |-> discard_set, np |-> now_playing,
     ended |-> has_ended, lib |-> library, cfg |-> config, res |-> result,
     sp |-> since_play]

\* What an operation returns: how ("ok", "played", "none" or the exception it
\* raised) and the song get_random_song drew in it (NoSong: none). The variable
\* result keeps it for the last operation; of the exceptions it tells apart
\* those of vote_song's argument and duplicate-vote checks, the others are
\* "raised".
Result(how, drawn) == [how |-> how, drawn |-> drawn]
Returns(s, how) == [s EXCEPT !.res.how = how]
Entering(s) == [s EXCEPT !.res = Result("ok", NoSong)]
Raised(s) == s.res.how \notin {"ok", "played", "none"}
Outcome(s) ==
    IF Raised(s) /\ s.res.how \notin {"already_voted", "must_specify"}
    THEN Result("raised", NoSong)
    ELSE s.res

\* The state an operation leaves.
Store(s) ==
    /\ packets' = s.packets
    /\ virtual_time' = s.vt
    /\ active_sessions' = s.as
    /\ discard_pile' = s.pile
    /\ discard_set' = s.dset
    /\ now_playing' = s.np
    /\ has_ended' = s.ended
    /\ library' = s.lib
    /\ config' = s.cfg
    /\ result' = Outcome(s)
    /\ since_play' = s.sp

\* The operation was a call of a caller's thread.
Commit(s) == Store(s) /\ UNCHANGED <<ticker, callers>>

\* The Ticker thread: pc is the statement of _scheduler_thread it is at
\* ("poll": line 382, "select": the query of lines 297-299, "play": lines
\* 300-314, "check": line 374, "divide": line 375, "sleep": line 385, "dead":
\* an exception left the thread's function), next_packet the row it holds between "select" and
\* "play", failed the call whose exception ended it.
TickerAt(pc, next_packet, failed) ==
    [pc |-> pc, next_packet |-> next_packet, failed |-> failed]
Sleeping == TickerAt("poll", <<>>, "")
Dead(failed) == TickerAt("dead", <<>>, failed)

\* ------------------------------------------------------------- player
play_media(s, media) == [s EXCEPT !.np = media, !.ended = FALSE]
stop(s) == [s EXCEPT !.np = NoMedia, !.ended = TRUE]

\* ------------------------------------------------------------- packets
weight(p) == 1 + Len(p.additional_votes)
length(p) == IF p.video_length # 0 THEN p.video_length ELSE SongLength(p.song_id)

FindSong(pk, song_id) ==
    IF \E i \in DOMAIN pk : pk[i].song_id = song_id /\ song_id # NoSong
    THEN CHOOSE i \in DOMAIN pk : pk[i].song_id = song_id
    ELSE 0
FindVideo(pk, url) ==
    IF \E i \in DOMAIN pk : pk[i].video_url = url /\ url # NoUrl
    THEN CHOOSE i \in DOMAIN pk : pk[i].video_url = url
    ELSE 0

\* The orders in which ORDER BY arrival_time may return the packets of user
\* (of every user when user is ""): sequences of positions of packets.
ArrivalOrders(pk, user) ==
    LET I == {i \in DOMAIN pk : user = "" \/ pk[i].user = user}
        n == Cardinality(I)
    IN { ord \in [1..n -> I] :
           /\ \A a, b \in 1..n : a # b => ord[a] # ord[b]
           /\ \A a, b \in 1..n :
                a < b => pk[ord[a]].arrival_time <= pk[ord[b]].arrival_time }

RECURSIVE FinishLoop(_, _, _, _)
FinishLoop(pk, ord, k, last_finish_time) ==
    IF k > Len(ord) THEN pk
    ELSE
      LET i == ord[k]
          p == pk[i]
          base == IF p.user \in DOMAIN last_finish_time
                  THEN Max(last_finish_time[p.user], p.arrival_time)
                  ELSE p.arrival_time
          ft == base + (length(p) \div weight(p))
      IN FinishLoop([pk EXCEPT ![i].finish_time = ft], ord, k + 1,
                    (p.user :> ft) @@ last_finish_time)

\* _update_finish_times(user): one outcome per order the query may return.
UpdateFinishTimes(pk, user) ==
    { FinishLoop(pk, ord, 1, <<>>) : ord \in ArrivalOrders(pk, user) }

UpdateActiveSessions(s) ==
    [s EXCEPT !.as = Cardinality({s.packets[i].user : i \in DOMAIN s.packets})]

\* ------------------------------------------------------------- discard pile
add_song_to_discard_pile(s, song) ==
    IF song \notin s.dset
    THEN [s EXCEPT !.dset = @ \cup {song}, !.pile = Append(@, song)]
    ELSE s

remove_song_from_discard_pile(s) ==
    LET song == Head(s.pile)
    IN [s EXCEPT !.pile = Tail(@), !.dset = @ \ {song}]

RECURSIVE trim_list(_, _)
trim_list(s, max_list_size) ==
    IF Len(s.pile) > max_list_size
    THEN trim_list(remove_song_from_discard_pile(s), max_list_size)
    ELSE s

\* int(DONT_REPEAT_FOR * db_size), capped by MAX_DONT_REPEAT_FOR when set.
compute_max_discard_pile_size(cfg, db_size) ==
    LET max_discard_size == (cfg.drf * db_size) \div DrfDen
    IN IF cfg.max # NoCap THEN Min(cfg.max, max_discard_size)
       ELSE max_discard_size

DiscardDisabled(cfg) == cfg.drf = 0 \/ cfg.max = 0

\* The capacity M of the discard pile in state s (0: no repeat prevention).
Capacity(s) ==
    IF DiscardDisabled(s.cfg) THEN 0
    ELSE compute_max_discard_pile_size(s.cfg, Cardinality(s.lib))

\* The play counter kept for the repeat-distance property, which is about a
\* fixed library: song id was played (-1: never played; capped at the
\* capacity M; Uncounted once the library has changed).
Uncounted == [x \in Songs |-> -2]
CountPlay(s, id) ==
    IF Capacity(s) = 0 \/ s.sp = Uncounted THEN s
    ELSE [s EXCEPT !.sp = [x \in Songs |->
                             IF x = id THEN 0
                             ELSE IF @[x] = -1 THEN -1
                             ELSE Min(@[x] + 1, Capacity(s))]]

update_discard_pile_with_song(s, song) ==
    IF ~DiscardDisabled(s.cfg)
    THEN LET max_discard_size ==
                 compute_max_discard_pile_size(s.cfg, Cardinality(s.lib))
         IN IF max_discard_size # 0
            THEN trim_list(add_song_to_discard_pile(s, song), max_discard_size)
            ELSE s
    ELSE s

\* The loop of lines 111-115: pop every entry from the right and push back on
\* the left those still in the library; discard_set is not touched.
RECURSIVE WeedOut(_, _, _)
WeedOut(pile, k, filename_set) ==
    IF k = 0 THEN pile
    ELSE LET filename == pile[Len(pile)]
             rest == SubSeq(pile, 1, Len(pile) - 1)
         IN WeedOut(IF filename \in filename_set THEN <<filename>> \o rest
                    ELSE rest,
                    k - 1, filename_set)

\* get_random_song: the set of <<state after, song drawn or NoSong>>.
get_random_song(s) ==
    IF DiscardDisabled(s.cfg)
    THEN IF s.lib = {} THEN {<<s, NoSong>>} ELSE {<<s, id>> : id \in s.lib}
    ELSE
      LET candidates == {id \in s.lib : SongPath(id) \notin Range(s.pile)}
          db_filenames == {SongPath(id) : id \in s.lib}
          max_discard_size ==
              compute_max_discard_pile_size(s.cfg, Cardinality(s.lib))
          cleaned ==
              IF max_discard_size = 0 THEN [s EXCEPT !.pile = <<>>]
              ELSE trim_list([s EXCEPT !.pile =
                                  WeedOut(s.pile, Len(s.pile), db_filenames)],
                             max_discard_size)
      IN IF candidates = {} THEN {<<cleaned, NoSong>>}
         ELSE { <<IF max_discard_size # 0
                  THEN trim_list(add_song_to_discard_pile(cleaned, SongPath(id)),
                                 max_discard_size)
                  ELSE cleaned,
                  id>> : id \in candidates }

\* ------------------------------------------------------------- operations
\* A Packet row; handed counts the times the row was handed to the player
\* (for a song: the PlayHistory rows written for it).
NewPacket(user, song_id, video_url, video_length, arrival_time) ==
    [song_id |-> song_id, video_url |-> video_url,
     video_length |-> video_length, user |-> user,
     arrival_time |-> arrival_time, finish_time |-> 0,
     additional_votes |-> <<>>, handed |-> 0]

OwnerNeverVotes(packet, user) == FALSE
\* Line 141: the voter is the owner of the packet.
OwnerVotes(packet, user) == user = packet.user

DuplicateVoteNeverFlagged(packet, user) == FALSE
\* Lines 145-148: the Vote row (packet, user) exists, the flush fails.
DuplicateVote(packet, user) == user \in Range(packet.additional_votes)

\* The packet is already queued: add a vote (lines 140-152).
AddVote(s, idx, user) ==
    LET packet == s.packets[idx]
    IN IF OwnerVotes(packet, user)
       THEN {Returns(s, "already_voted")}
       ELSE IF DuplicateVote(packet, user)
       THEN {Returns(s, "already_voted")}
       ELSE LET voted == [s.packets EXCEPT
                            ![idx].additional_votes = Append(@, user)]
            IN { [s EXCEPT !.packets = pk] :
                   pk \in UpdateFinishTimes(voted, packet.user) }

\* The packet is not queued: queue it (lines 153-184).
Enqueue(s, user, song_id, video_url) ==
    LET queued(packet) ==
          { UpdateActiveSessions([s EXCEPT !.packets = pk]) :
              pk \in UpdateFinishTimes(Append(s.packets, packet), user) }
    IN IF video_url # NoUrl
       THEN IF video_url = YouTubeUrl
            THEN {Returns(s, "fetch_failed")} \cup
                 queued(NewPacket(user, NoSong, video_url, FetchedVideoLength,
                                  s.vt))
            ELSE {Returns(s, "unsupported_website")}
       ELSE IF song_id \notin s.lib
            THEN {Returns(s, "song_does_not_exist")}
            ELSE queued(NewPacket(user, song_id, NoUrl, 0, s.vt))

\* vote_song(user, song_id, video_url): the set of states it may leave.
vote_song(s, user, song_id, video_url) ==
    IF video_url = NoUrl /\ song_id = NoSong
    THEN {Returns(s, "must_specify")}
    ELSE LET idx == IF video_url # NoUrl THEN FindVideo(s.packets, video_url)
                    ELSE FindSong(s.packets, song_id)
         IN IF idx # 0 THEN AddVote(s, idx, user)
            ELSE Enqueue(s, user, song_id, video_url)

clear_resets_time(s) == stop([s EXCEPT !.packets = <<>>, !.vt = 0])
clear(s) == stop([s EXCEPT !.packets = <<>>])

\* remove_song / remove_video: idx is the packet found (0: None), playing
\* tells whether player.now_playing is that item.
RemovePacket(s, idx, playing, skip) ==
    LET stopped == IF playing THEN stop(s) ELSE s
    IN IF idx = 0 THEN Returns(stopped, "remove_failed")
       ELSE LET packet == s.packets[idx]
                skipped == IF playing /\ skip
                           THEN [stopped EXCEPT !.vt = packet.finish_time]
                           ELSE stopped
            IN UpdateActiveSessions(
                   [skipped EXCEPT !.packets = RemoveAt(@, idx)])

remove_song_keeps_time(s, song_id, skip) ==
    RemovePacket(s, FindSong(s.packets, song_id),
                 s.np.kind = "song" /\ s.np.id = song_id, FALSE)
remove_song(s, song_id, skip) ==
    RemovePacket(s, FindSong(s.packets, song_id),
                 s.np.kind = "song" /\ s.np.id = song_id, skip)

remove_video(s, url, skip) ==
    RemovePacket(s, FindVideo(s.packets, url),
                 s.np.kind = "video" /\ s.np.url = url, skip)

empty(s) == s.as = 0

\* The rows ORDER BY finish_time may return first.
NextPackets(pk) ==
    {i \in DOMAIN pk : \A j \in DOMAIN pk : pk[i].finish_time <= pk[j].finish_time}

\* p and q are one row of the Packet table.
SameRow(p, q) ==
    /\ p.song_id = q.song_id
    /\ p.video_url = q.video_url
    /\ p.user = q.user
    /\ p.arrival_time = q.arrival_time

\* Lines 300-314: play next_packet, a row the query of lines 297-299 returned.
Play(s, next_packet) ==
    LET marked == [s EXCEPT !.packets =
                     [i \in DOMAIN @ |->
                        IF SameRow(@[i], next_packet)
                        THEN [@[i] EXCEPT !.handed = @ + 1]
                        ELSE @[i]]]
    IN IF next_packet.video_url # NoUrl
       THEN Returns(play_media(marked, VideoMedia(next_packet.video_url)),
                    "played")
       ELSE LET path == SongPath(next_packet.song_id)
                counted == CountPlay(marked, next_packet.song_id)
            IN Returns(play_media(
                           update_discard_pile_with_song(counted, path),
                           SongMedia(next_packet.song_id)),
                       "played")

\* Lines 296-314: play the packet at position i.
PlayPacket(s, i) == Play(s, s.packets[i])

\* Lines 291-295: remove the packet of the item the player holds.
RemoveNowPlaying(s, skip) ==
    IF s.np.kind = "video" THEN remove_video(s, s.np.url, skip)
    ELSE IF s.np.kind = "song" THEN remove_song(s, s.np.id, skip)
    ELSE s

\* Lines 290-314, from a state s the first half of play_next left.
PlayFromQueue(s, skip) ==
    IF empty(s) THEN {Returns(s, "none")}
    ELSE LET removed == RemoveNowPlaying(s, skip)
         IN IF Raised(removed) THEN {removed}
            ELSE IF removed.packets = <<>> THEN {Returns(removed, "none")}
            ELSE {PlayPacket(removed, i) : i \in NextPackets(removed.packets)}

\* Lines 285-288: with no active session, queue a random song for RANDOM.
FallBack(s) ==
    LET drawn == IF empty(s) THEN get_random_song(s) ELSE {<<s, NoSong>>}
    IN UNION { IF d[2] # NoSong
               THEN vote_song([d[1] EXCEPT !.res.drawn = d[2]],
                              RANDOM, d[2], NoUrl)
               ELSE {d[1]} : d \in drawn }

\* play_next(skip): the set of states it may leave.
play_next(s, skip) ==
    UNION { IF Raised(v) THEN {v} ELSE PlayFromQueue(v, skip) :
              v \in FallBack(s) }

_increment_virtual_time(s) ==
    IF ~empty(s)
    THEN [s EXCEPT !.vt = @ + (SCHEDULER_INTERVAL_SEC \div s.as)]
    ELSE s

\* One iteration of _scheduler_thread; an exception of play_next leaves the
\* loop (nothing in _scheduler_thread catches it).
SchedulerIteration(s) ==
    LET advanced == IF s.ended THEN play_next(s, FALSE) ELSE {s}
    IN { IF Raised(a) THEN a ELSE _increment_virtual_time(a) : a \in advanced }

\* ------------------------------------------------------------- the machine
Constructed ==
    /\ packets = <<>>
    /\ virtual_time = 0
    /\ active_sessions = 0
    /\ discard_pile = <<>>
    /\ discard_set = {}
    /\ now_playing = NoMedia
    /\ has_ended = TRUE
    /\ result = Result("ok", NoSong)
    /\ since_play = [x \in Songs |-> -1]
    /\ ticker = Sleeping
    /\ callers = TRUE

\* Init: repeat prevention off, the library fixed, one song id without a row.
Init ==
    /\ Constructed
    /\ config = [drf |-> 0, max |-> NoCap]
    /\ library = Songs \ {NumSongs}

InitDiscard ==
    /\ Constructed
    /\ config \in Configs
    /\ library = Songs

InitLibrary ==
    /\ Constructed
    /\ config = [drf |-> 1, max |-> NoCap]
    /\ library = Songs

\* The model keeps at most MaxPackets packets and virtual time within MaxV.
Within(s) == Len(s.packets) <= MaxPackets /\ s.vt <= MaxV

VoteSong(user, song_id, video_url) ==
    \E t \in vote_song(Entering(State), user, song_id, video_url) :
        Within(t) /\ Commit(t)

RemoveSong(song_id, skip) ==
    LET t == remove_song(Entering(State), song_id, skip)
    IN Within(t) /\ Commit(t)

RemoveVideo(url, skip) ==
    LET t == remove_video(Entering(State), url, skip)
    IN Within(t) /\ Commit(t)

Clear == Commit(clear(Entering(State)))

PlayNext(skip) ==
    \E t \in play_next(Entering(State), skip) :
        Within(t) /\ Commit(t)

\* The Ticker thread runs one iteration of its loop, or ends in it.
SchedulerThread ==
    /\ ticker.pc = "poll"
    /\ \E t \in SchedulerIteration(Entering(State)) :
          /\ Within(t)
          /\ Store(t)
          /\ ticker' = IF Raised(t) THEN Dead("play_next") ELSE ticker
    /\ UNCHANGED callers

\* The player reaches the end of the item it plays.
PlayerEnds ==
    /\ ~has_ended
    /\ has_ended' = TRUE
    /\ result' = Result("ok", NoSong)
    /\ UNCHANGED <<packets, virtual_time, active_sessions, discard_pile,
                   discard_set, now_playing, library, config, since_play,
                   ticker, callers>>

\* Song rows are added to the library, and rows no packet refers to deleted.
LibraryVars ==
    <<packets, virtual_time, active_sessions, discard_pile, discard_set,
      now_playing, has_ended, config, ticker, callers>>

AddSong(id) ==
    /\ id \notin library
    /\ library' = library \cup {id}
    /\ since_play' = Uncounted
    /\ result' = Result("ok", NoSong)
    /\ UNCHANGED LibraryVars

DeleteSong(id) ==
    /\ id \in library
    /\ FindSong(packets, id) = 0
    /\ library' = library \ {id}
    /\ since_play' = Uncounted
    /\ result' = Result("ok", NoSong)
    /\ UNCHANGED LibraryVars

Next ==
    \/ \E user \in Users, song_id \in Songs \cup {NoSong},
          video_url \in Urls \cup {NoUrl} : VoteSong(user, song_id, video_url)
    \/ \E song_id \in Songs, skip \in BOOLEAN : RemoveSong(song_id, skip)
    \/ \E url \in Urls, skip \in BOOLEAN : RemoveVideo(url, skip)
    \/ Clear
    \/ \E skip \in BOOLEAN : PlayNext(skip)
    \/ SchedulerThread
    \/ PlayerEnds

\* The calls of one user on Local songs.
UserCalls ==
    \/ \E song_id \in Songs : VoteSong("u1", song_id, NoUrl)
    \/ \E song_id \in Songs : RemoveSong(song_id, FALSE)
    \/ Clear
    \/ PlayNext(FALSE)

\* These calls, the Ticker and the player, for the properties of the discard
\* pile.
LocalCalls ==
    \/ UserCalls
    \/ SchedulerThread
    \/ PlayerEnds

NextDiscard == LocalCalls

NextLibrary ==
    \/ LocalCalls
    \/ \E id \in Songs : AddSong(id)
    \/ \E id \in Songs : DeleteSong(id)

\* ------------------------------------------------- the Ticker as a thread
\* _scheduler_thread runs beside the callers' threads and nothing in
\* scheduler.py takes a lock: between two of the statements below a call of a
\* caller may run.

\* Line 382 and, when the player has ended, lines 285-295 of play_next.
TickerAdvance ==
    /\ ticker.pc = "poll"
    /\ IF ~has_ended
       THEN /\ ticker' = TickerAt("check", <<>>, "")
            /\ Store(Entering(State))
       ELSE \E v \in FallBack(Entering(State)) :
              LET t == IF Raised(v) \/ empty(v) THEN v
                       ELSE RemoveNowPlaying(v, FALSE)
              IN /\ Within(t)
                 /\ Store(IF ~Raised(t) /\ empty(v) THEN Returns(t, "none")
                          ELSE t)
                 /\ ticker' = IF Raised(t) THEN Dead("play_next")
                              ELSE IF empty(v) THEN TickerAt("check", <<>>, "")
                              ELSE TickerAt("select", <<>>, "")
    /\ UNCHANGED callers

\* Lines 296-300: the query for the packet of least finish_time.
TickerSelect ==
    /\ ticker.pc = "select"
    /\ IF packets = <<>>
       THEN /\ ticker' = TickerAt("check", <<>>, "")
            /\ Store(Returns(Entering(State), "none"))
       ELSE /\ \E i \in NextPackets(packets) :
                 ticker' = TickerAt("play", <<packets[i]>>, "")
            /\ Store(Entering(State))
    /\ UNCHANGED callers

\* Lines 301-314: hand the row the query returned to the player.
TickerPlay ==
    /\ ticker.pc = "play"
    /\ Store(Play(Entering(State), ticker.next_packet[1]))
    /\ ticker' = TickerAt("check", <<>>, "")
    /\ UNCHANGED callers

\* Line 374: if not self.empty().
TickerCheck ==
    /\ ticker.pc = "check"
    /\ ticker' = IF ~empty(State) THEN TickerAt("divide", <<>>, "")
                 ELSE Sleeping
    /\ Store(Entering(State))
    /\ UNCHANGED callers

\* Line 375: SCHEDULER_INTERVAL_SEC / self.active_sessions raises
\* ZeroDivisionError when active_sessions is 0.
TickerDivide ==
    /\ ticker.pc = "divide"
    /\ IF active_sessions = 0
       THEN /\ ticker' = Dead("_increment_virtual_time")
            /\ Store(Returns(Entering(State), "raised"))
       ELSE LET t == [Entering(State) EXCEPT
                        !.vt = @ + (SCHEDULER_INTERVAL_SEC \div active_sessions)]
            IN /\ Within(t)
               /\ Store(t)
               /\ ticker' = Sleeping
    /\ UNCHANGED callers

NextThreads ==
    \/ UserCalls
    \/ PlayerEnds
    \/ TickerAdvance
    \/ TickerSelect
    \/ TickerPlay
    \/ TickerCheck
    \/ TickerDivide

\* --------------------------------------------- callers that stop calling
\* From some moment on no caller makes a call.
CallersStop ==
    /\ callers
    /\ callers' = FALSE
    /\ Store(Entering(State))
    /\ UNCHANGED ticker

\* The Ticker once callers have stopped: an iteration of its loop up to the
\* sleep of line 385. Virtual time then only stamps the packets of RANDOM; it
\* is kept at most MaxV.
DrainingTicker ==
    /\ ~callers
    /\ ticker.pc = "poll"
    /\ \E t \in SchedulerIteration(Entering(State)) :
          /\ Store([t EXCEPT !.vt = Min(@, MaxV)])
          /\ ticker' = IF Raised(t) THEN Dead("play_next")
                       ELSE TickerAt("sleep", <<>>, "")
    /\ UNCHANGED callers

\* The sleep of line 385 is over.
DrainingWake ==
    /\ ~callers
    /\ ticker.pc = "sleep"
    /\ ticker' = Sleeping
    /\ Store(Entering(State))
    /\ UNCHANGED callers

DrainingPlayer == ~callers /\ PlayerEnds

NextDrain ==
    \/ callers /\ UserCalls
    \/ callers /\ SchedulerThread
    \/ callers /\ PlayerEnds
    \/ CallersStop
    \/ DrainingTicker
    \/ DrainingWake
    \/ DrainingPlayer

Spec == Init /\ [][Next]_vars
SpecThreads == Init /\ [][NextThreads]_vars
SpecDrain ==
    /\ Init
    /\ [][NextDrain]_vars
    /\ WF_vars(DrainingTicker)
    /\ WF_vars(DrainingWake)
    /\ WF_vars(DrainingPlayer)
SpecDiscard == InitDiscard /\ [][NextDiscard]_vars
SpecLibrary == InitLibrary /\ [][NextLibrary]_vars

\* ------------------------------------------------------------- properties
Packets == {packets[i] : i \in DOMAIN packets}
Owners == {p.user : p \in Packets}

\* The position of the packet of the item the player holds (0: none).
PlayingAt ==
    IF now_playing.kind = "song" THEN FindSong(packets, now_playing.id)
    ELSE IF now_playing.kind = "video" THEN FindVideo(packets, now_playing.url)
    ELSE 0

\* The last operation handed packets[PlayingAt] to the player.
Handed == result.how = "played" /\ PlayingAt # 0

\* C1: empty() holds exactly when active_sessions is 0, and that exactly when
\* the store holds no packet of this player, after any sequence of operations.
C1_EmptyIffNoPackets ==
    /\ empty(State) <=> active_sessions = 0
    /\ active_sessions = 0 <=> packets = <<>>

\* C2: every user's packets, taken in an arrival order, satisfy the
\* finish-time recurrence: recomputing them leaves every finish_time as it is.
C2_FinishTimeRecurrence ==
    \A user \in Owners : packets \in UpdateFinishTimes(packets, user)

\* C3: the packet handed to the player has the least finish_time of the store,
\* among those the least arrival_time, among those the least id.
C3_MinFinishThenArrivalThenId ==
    Handed =>
      \A j \in DOMAIN packets :
        LET p == packets[PlayingAt]
            q == packets[j]
        IN \/ p.finish_time < q.finish_time
           \/ /\ p.finish_time = q.finish_time
              /\ \/ p.arrival_time < q.arrival_time
                 \/ p.arrival_time = q.arrival_time /\ PlayingAt <= j

\* C3, first half: the packet handed to the player has the least finish_time.
C3_MinFinish ==
    Handed =>
      \A j \in DOMAIN packets :
        packets[PlayingAt].finish_time <= packets[j].finish_time

\* C5: the packet handed to the player is the earliest enqueued of the packets
\* its user has in the store.
C5_FifoWithinUser ==
    Handed =>
      \A j \in DOMAIN packets :
        packets[j].user = packets[PlayingAt].user => PlayingAt <= j

\* C8: no packet has two additional votes of one user or an additional vote of
\* its owner, so its weight is 1 plus the number of its non-owner voters.
C8_OneVotePerUser ==
    \A p \in Packets :
      /\ \A a, b \in DOMAIN p.additional_votes :
           a # b => p.additional_votes[a] # p.additional_votes[b]
      /\ p.user \notin Range(p.additional_votes)
      /\ weight(p) = 1 + Cardinality(Range(p.additional_votes) \ {p.user})

C8_Witness ==
    \E p \in Packets : Len(p.additional_votes) = 2 /\ result.how = "already_voted"

ProgramVars ==
    <<packets, virtual_time, active_sessions, discard_pile, discard_set,
      now_playing, has_ended>>

\* C4: play_next called with no packet in the store enqueues and plays exactly
\* one Local packet of RANDOM for a song of the library when the library is
\* not empty, and changes nothing when it is empty.
C4_AdvanceOnEmptyQueue ==
    [][\A skip \in BOOLEAN :
         (packets = <<>> /\ PlayNext(skip)) =>
           IF library # {}
           THEN /\ Len(packets') = 1
                /\ packets'[1].user = RANDOM
                /\ packets'[1].song_id \in library
                /\ packets'[1].video_url = NoUrl
                /\ now_playing' = SongMedia(packets'[1].song_id)
                /\ result'.how = "played"
           ELSE UNCHANGED ProgramVars]_vars

\* The packet vote_song(user, song_id, video_url) finds queued (0: none).
Lookup(song_id, video_url) ==
    IF video_url # NoUrl THEN FindVideo(packets, video_url)
    ELSE FindSong(packets, song_id)

HasVote(user, song_id, video_url) ==
    LET idx == Lookup(song_id, video_url)
    IN /\ idx # 0
       /\ \/ packets[idx].user = user
          \/ user \in Range(packets[idx].additional_votes)

\* C9: a vote of a user who already has a vote on the queued packet, as its
\* owner or as an additional voter, raises already-voted and leaves the
\* packets (votes, arrival and finish times), virtual time and
\* active_sessions as they were: in every reachable state, for every such
\* call and every outcome of it.
C9_DuplicateVoteRejected ==
    \A user \in Users, song_id \in Songs \cup {NoSong},
       video_url \in Urls \cup {NoUrl} :
      HasVote(user, song_id, video_url) =>
        \A t \in vote_song(Entering(State), user, song_id, video_url) :
          /\ t.res.how = "already_voted"
          /\ t.packets = packets
          /\ t.vt = virtual_time
          /\ t.as = active_sessions
          /\ <<t.pile, t.dset, t.np, t.ended>> =
               <<discard_pile, discard_set, now_playing, has_ended>>

C9_Witness ==
    /\ result.how = "already_voted"
    /\ \E p \in Packets : p.additional_votes # <<>>

\* C10: vote_song with neither song_id nor video_url, or with both, raises
\* (every exception of vote_song is a plain Exception, told apart by its
\* message only: any of them counts as the invalid-argument error here) and
\* changes no state.
C10_ExactlyOneArgument ==
    [][\A user \in Users, song_id \in Songs \cup {NoSong},
          video_url \in Urls \cup {NoUrl} :
         (((song_id = NoSong) = (video_url = NoUrl))
            /\ VoteSong(user, song_id, video_url)) =>
           /\ result'.how \in {"must_specify", "already_voted", "raised"}
           /\ UNCHANGED ProgramVars]_vars

\* C6: while the pile has capacity M >= 1, the song the random selector
\* returns was never played or at least M Local plays of other songs have
\* occurred since its last play.
C6_NoRepeatWithinCapacity ==
    [][(result'.drawn # NoSong /\ Capacity(State) >= 1) =>
         \/ since_play[result'.drawn] < 0
         \/ since_play[result'.drawn] >= Capacity(State)]_vars

\* C7: after play_next (and the get_random_song in it) the discard pile holds
\* at most M paths, M computed from the library size the call saw, and no path
\* twice.
C7_PileWithinCapacity ==
    result.how \in {"played", "none"} =>
      /\ Len(discard_pile) <= Capacity(State)
      /\ \A a, b \in DOMAIN discard_pile :
           a # b => discard_pile[a] # discard_pile[b]

\* The item is the one the player holds.
PlayingSong(song_id) == now_playing = SongMedia(song_id)
PlayingVideo(url) == now_playing = VideoMedia(url)

\* C11: no step other than a skip jump decreases virtual time: every vote,
\* every remove with skip false or of an item that is not playing, clear,
\* play_next with skip false and every iteration of the Ticker leave it
\* greater than or equal to what it was, in every reachable state.
C11_TimeNeverDecreasesWithoutSkip ==
    /\ \A user \in Users, song_id \in Songs \cup {NoSong},
          video_url \in Urls \cup {NoUrl} :
         \A t \in vote_song(Entering(State), user, song_id, video_url) :
           t.vt >= virtual_time
    /\ \A song_id \in Songs, skip \in BOOLEAN :
         (~skip \/ ~PlayingSong(song_id)) =>
           remove_song(Entering(State), song_id, skip).vt >= virtual_time
    /\ \A url \in Urls, skip \in BOOLEAN :
         (~skip \/ ~PlayingVideo(url)) =>
           remove_video(Entering(State), url, skip).vt >= virtual_time
    /\ clear(Entering(State)).vt >= virtual_time
    /\ \A t \in play_next(Entering(State), FALSE) : t.vt >= virtual_time
    /\ \A t \in SchedulerIteration(Entering(State)) : t.vt >= virtual_time

C11_Witness ==
    /\ virtual_time > 0
    /\ Len(packets) = 2
    /\ result.how = "played"

\* What remove leaves of the store: the packets but the one at idx, and the
\* number of their users.
Without(idx) == RemoveAt(packets, idx)
UsersOf(pk) == {pk[i].user : i \in DOMAIN pk}

\* C12: remove of a queued item sets virtual time to the finish_time of its
\* packet exactly when the item is the one playing and skip is true, and
\* leaves virtual time as it is otherwise (also when the item is not queued);
\* it deletes the packet with its votes and refreshes active_sessions.
C12_RemoveJumpsOnlyOnSkipOfPlaying ==
    /\ \A song_id \in Songs, skip \in BOOLEAN :
         LET idx == FindSong(packets, song_id)
             t == remove_song(Entering(State), song_id, skip)
         IN IF idx = 0 THEN t.vt = virtual_time
            ELSE /\ t.vt = IF PlayingSong(song_id) /\ skip
                           THEN packets[idx].finish_time ELSE virtual_time
                 /\ t.packets = Without(idx)
                 /\ t.as = Cardinality(UsersOf(Without(idx)))
    /\ \A url \in Urls, skip \in BOOLEAN :
         LET idx == FindVideo(packets, url)
             t == remove_video(Entering(State), url, skip)
         IN IF idx = 0 THEN t.vt = virtual_time
            ELSE /\ t.vt = IF PlayingVideo(url) /\ skip
                           THEN packets[idx].finish_time ELSE virtual_time
                 /\ t.packets = Without(idx)
                 /\ t.as = Cardinality(UsersOf(Without(idx)))

\* A playing item is queued with a finish_time other than virtual time, next
\* to a packet with a vote: remove of it with skip jumps, without skip not.
C12_Witness ==
    /\ PlayingAt # 0
    /\ packets[PlayingAt].finish_time # virtual_time
    /\ Len(packets) = 2
    /\ \E p \in Packets : p.additional_votes # <<>>

\* C13: a skip jump moves virtual time forward: remove of the playing item
\* with skip true, and play_next with skip true, leave virtual time greater
\* than or equal to what it was.
C13_SkipJumpsForward ==
    /\ \A song_id \in Songs :
         (PlayingSong(song_id) /\ FindSong(packets, song_id) # 0) =>
           remove_song(Entering(State), song_id, TRUE).vt >= virtual_time
    /\ \A url \in Urls :
         (PlayingVideo(url) /\ FindVideo(packets, url) # 0) =>
           remove_video(Entering(State), url, TRUE).vt >= virtual_time
    /\ \A t \in play_next(Entering(State), TRUE) : t.vt >= virtual_time

\* C14: for an item that is not queued, vote_song of it followed by remove of
\* it leaves the packets as they were before the vote: the same rows with the
\* same owners, votes, arrival_time and finish_time.
C14_VoteThenRemoveRestores ==
    /\ \A user \in Users, song_id \in Songs :
         FindSong(packets, song_id) = 0 =>
           \A t \in vote_song(Entering(State), user, song_id, NoUrl) :
             ~Raised(t) => remove_song(t, song_id, FALSE).packets = packets
    /\ \A user \in Users, url \in Urls :
         FindVideo(packets, url) = 0 =>
           \A t \in vote_song(Entering(State), user, NoSong, url) :
             ~Raised(t) => remove_video(t, url, FALSE).packets = packets

\* Packet j was queued before packet i: the smaller arrival_time, then the
\* smaller id.
Before(j, i) ==
    \/ packets[j].arrival_time < packets[i].arrival_time
    \/ packets[j].arrival_time = packets[i].arrival_time /\ j < i

\* C15: a successful additional vote on a queued packet changes no
\* arrival_time, and no finish_time but those of the packet and of the packets
\* of its owner queued after it.
C15_VoteTouchesOnlyDownstream ==
    \A user \in Users, song_id \in Songs \cup {NoSong},
       video_url \in Urls \cup {NoUrl} :
      LET idx == Lookup(song_id, video_url)
      IN idx # 0 =>
           \A t \in vote_song(Entering(State), user, song_id, video_url) :
             ~Raised(t) =>
               \A j \in DOMAIN packets :
                 /\ t.packets[j].arrival_time = packets[j].arrival_time
                 /\ (j # idx /\ (packets[j].user # packets[idx].user
                                 \/ Before(j, idx))) =>
                      t.packets[j].finish_time = packets[j].finish_time

\* C20: discard_set holds exactly the paths of discard_pile, in every
\* reachable state, also after the library has shrunk or grown between two
\* random picks.
C20_SetMatchesPile == discard_set = Range(discard_pile)

\* C16: an exception of the play_next the Ticker called does not end the
\* Ticker: it goes on with its loop.
C16_TickerSurvivesAdvanceError ==
    ticker.failed = "play_next" => ticker.pc # "dead"

\* C17: whenever the Ticker divides SCHEDULER_INTERVAL_SEC by active_sessions,
\* active_sessions is at least 1, under every interleaving with the callers:
\* the increment never fails with a division by zero.
C17_DivisorAtLeastOne ==
    /\ ticker.pc = "divide" => active_sessions >= 1
    /\ ticker.failed # "_increment_virtual_time"

\* C18: a play_next of the Ticker and a play_next of a caller never hand the
\* same packet to the player: every packet is handed at most once (and has at
\* most one PlayHistory row).
C18_HandedAtMostOnce == \A p \in Packets : p.handed <= 1

\* The user queue is drained and playback goes on from the random fallback:
\* the store holds a packet of RANDOM only, which the player plays.
PlaysRandom ==
    /\ \A p \in Packets : p.user = RANDOM
    /\ PlayingAt # 0
    /\ ~has_ended

\* C19: once no caller calls any more, with the Ticker running and the player
\* ending every item, the packets of the store are played and removed, and
\* playback goes on from the random fallback.
C19_QueueDrainsThenRandom == (~callers) ~> PlaysRandom

====
